---- MODULE Spec2Model ----
(***************************************************************************)
(* MySuperWhisper orchestration core: the Ctrl gesture detector            *)
(* (keyboard.py), the session and lifecycle state of main.py and the       *)
(* recording buffer of audio.py, as concurrently running threads, and a    *)
(* second process that runs main() with a command option.                  *)
(*                                                                         *)
(* Time.  Gesture time is counted in ticks of 100 ms relative to the last  *)
(* Ctrl release (since_last_ctrl = time.time() - _last_ctrl_time, capped   *)
(* at the debounce window, beyond which the code cannot tell gaps apart).  *)
(* Lifecycle time is the value of time.time() - _last_activity_time in     *)
(* seconds, drawn from the representative durations InactivitySamples.     *)
(***************************************************************************)
EXTENDS Integers, Sequences, FiniteSets, TLC

\* ---- bounds of the model ----
MaxTimers == 2          \* threading.Timer threads alive at the same time
MaxChunks == 3          \* audio blocks appended to the buffer in one run
MaxLive == 1            \* live_preview_worker threads alive at the same time
MaxWords == 4           \* words of a text given to process_voice_commands

\* ---- program constants ----
DEBOUNCE_WINDOW == 5            \* 0.5 s, in ticks of 100 ms
TIMER_INTERVAL == 3             \* threading.Timer(0.3, ...), in ticks
MIN_SAMPLES == 48000            \* minimum recording length, in samples
LIVE_MIN_SAMPLES == 32000       \* minimum length of a preview, in samples
AUTO_SLEEP_TIMEOUT == 15        \* seconds
MODEL_UNLOAD_TIMEOUT == 60 * 15 \* seconds

\* frames delivered by one call of the capture callback
BlockSizes == {16000, 48000}

\* representative values of time.time() - _last_activity_time, in seconds
InactivitySamples == {0, 10, AUTO_SLEEP_TIMEOUT + 1, MODEL_UNLOAD_TIMEOUT + 1}

\* attributes that exist on the Config object (Config.__init__, Config.load)
ConfigFields == {"model_size", "language", "system_notifications_enabled",
                 "sound_notifications_enabled", "live_preview_enabled",
                 "input_device", "output_device"}

\* ---- threads ----
MainThread == 0                      \* runs the signal handlers
TimerThreads == 1..MaxTimers         \* threading.Timer threads of keyboard.py
ListenerThread == MaxTimers + 1      \* pynput listener thread
Threads == 0..(MaxTimers + 1)

NoTimer == 0                         \* _ctrl_action_timer = None
CtrlKeys == {"ctrl_l", "ctrl_r"}
Keys == CtrlKeys \cup {"other"}
Signals == {"SIGUSR1", "SIGUSR2", "SIGRTMIN"}
LiveWorkers == 1..MaxLive            \* live_preview_worker threads

\* transcription._model: None, a loaded model of some size, or the name
\* deleted by "del _model" and not yet assigned again
NoModel == "None"
Unbound == "unbound"
ModelSizes == {"medium", "small"}

\* texts returned by transcription.transcribe, as sequences of words;
\* NoText is the empty string
NoText == <<>>
Texts == {<<"hello">>, <<"hello", "enter">>, <<"enter">>, <<"beep">>}

\* a numpy array of samples: the ids of the blocks it was built from, in
\* order, and its number of samples; None is the Python None
None == [isNone |-> TRUE, src |-> <<>>, len |-> 0]

\* process_voice_commands has not returned anything yet
NoResult == [text |-> <<>>, validate |-> FALSE, returned |-> FALSE]

VARIABLES
    \* keyboard.py
    ctrl_press_count,     \* _ctrl_press_count
    since_last_ctrl,      \* time.time() - _last_ctrl_time, capped
    ctrl_action_timer,    \* _ctrl_action_timer: a timer thread or NoTimer
    timer_remaining,      \* ticks left before an armed timer expires
    \* threads
    pc,                   \* position of each thread
    audio_data,           \* local audio_data of stop_and_process, per thread
    \* main.py
    inactive_duration,    \* time.time() - _last_activity_time
    is_sleeping,          \* _is_sleeping
    is_model_loaded,      \* _is_model_loaded
    main_is_recording,    \* main._is_recording
    processing_queue,     \* processing_queue
    live_workers,         \* running live_preview_worker threads
    mpc,                  \* position of sleep_monitor_worker
    m_inactive,           \* its local inactive_duration
    startup_pc,           \* position of startup_worker
    wpc,                  \* position of audio_processing_loop
    job,                  \* its local audio_data
    \* audio.py
    is_recording,         \* audio.is_recording
    audio_buffer,         \* audio.audio_buffer
    stream_ref,           \* audio._stream is not None
    open_streams,         \* capture streams open at the audio layer
    next_chunk,           \* id of the next block appended to the buffer
    cb_pc,                \* position of the stream's callback thread
    \* history variables (not program state)
    last_gap_short,       \* was the gap before the last Ctrl release < 500 ms
    last_release,         \* what the last Ctrl release did
    timer_hist,           \* per timer: fresh, disturbed, tripled
    woke,                 \* per thread: saw sleeping / finished start_stream
    snap,                 \* last get_current_buffer result of this session
    session_base,         \* blocks appended before the last start_recording
    \* live_preview_worker threads
    live_pc,              \* position of each live_preview_worker thread
    \* audio_processing_loop
    w_text,               \* its local text
    w_exc,                \* exception caught at line 265 for the job in hand
    w_out,                \* what it did for the job in hand, in order
    transcription_history,\* history.transcription_history (texts only)
    \* transcription.py and its reload thread
    model,                \* transcription._model
    model_size,           \* config.model_size
    rpc,                  \* position of the _reload thread of the tray
    r_name,               \* its argument new_model_size
    \* signal handler
    cur_signal,           \* signal whose handler is calling on_double_ctrl
    \* more history variables (not program state)
    run_fired,            \* gesture actions invoked in the current rapid run
    sp_cue,               \* sound played by the last stop_and_process
    \* the process of main() and a second process started with a command
    instance,             \* the process modelled above: "running" or "exited"
    lock_file,            \* content of /tmp/mysuperwhisper.lock
    cmd_pc,               \* position of the second process in main()
    cmd_pid,              \* its local pid
    sig_pending,          \* signal sent to the instance and not yet handled
    cmd_arg,              \* its command line option
    \* tray.py
    tray_pc,              \* position of the menu handler _on_select_source
    \* history variable (not program state)
    cb_base,              \* session_base when the callback tested is_recording
    live_old,             \* per loop: a later start_recording found it running
    \* voice_commands.py
    vc_text,              \* argument of process_voice_commands
    vc_result             \* what it returned

vars == <<ctrl_press_count, since_last_ctrl, ctrl_action_timer, timer_remaining,
          pc, audio_data, inactive_duration, is_sleeping, is_model_loaded,
          main_is_recording, processing_queue, live_workers, mpc, m_inactive,
          startup_pc, wpc, job, is_recording, audio_buffer, stream_ref, open_streams,
          next_chunk, cb_pc, last_gap_short, last_release, timer_hist, woke,
          snap, session_base, live_pc, w_text, w_exc, w_out,
          transcription_history, model, model_size, rpc, r_name, cur_signal,
          run_fired, sp_cue, instance, lock_file, cmd_pc, cmd_pid, cmd_arg,
          sig_pending, tray_pc, cb_base, vc_text, vc_result, live_old>>

keyboardVars == <<ctrl_press_count, since_last_ctrl, ctrl_action_timer,
                  timer_remaining>>
sessionVars == <<inactive_duration, is_sleeping, is_model_loaded>>
recordVars == <<main_is_recording, is_recording, audio_buffer, live_workers>>
streamVars == <<stream_ref, open_streams>>
monitorVars == <<mpc, m_inactive>>
workerVars == <<wpc, job>>
captureVars == <<next_chunk, cb_pc, session_base, cb_base>>
trayVars == <<tray_pc>>
voiceVars == <<vc_text, vc_result>>
liveVars == <<live_pc, live_old>>
pipeVars == <<w_text, w_exc, w_out, transcription_history>>
modelVars == <<model, model_size, rpc, r_name>>
histVars == <<last_gap_short, last_release, timer_hist, woke, snap>>
cmdVars == <<instance, lock_file, cmd_pc, cmd_pid, cmd_arg, sig_pending>>
\* everything but cmdVars: the state of the running instance
instanceVars == <<keyboardVars, pc, audio_data, sessionVars, recordVars,
                  processing_queue, monitorVars, workerVars, startup_pc,
                  streamVars, captureVars, histVars, liveVars, pipeVars,
                  modelVars, cur_signal, run_fired, sp_cue, trayVars,
                  voiceVars>>

\* ---- helpers ----
Min(a, b) == IF a < b THEN a ELSE b

NoHist == [fresh |-> FALSE, disturbed |-> FALSE, tripled |-> FALSE,
           alone |-> FALSE]
NoWake == [saw |-> FALSE, started |-> FALSE]

RECURSIVE SumFrames(_)
SumFrames(chunks) ==
    IF chunks = <<>> THEN 0
    ELSE Head(chunks).frames + SumFrames(Tail(chunks))

\* np.concatenate(audio_buffer, axis=0)
Concatenate(chunks) ==
    [isNone |-> FALSE,
     src |-> [i \in 1..Len(chunks) |-> chunks[i].id],
     len |-> SumFrames(chunks)]

IsPrefix(s, t) ==
    /\ Len(s) <= Len(t)
    /\ \A i \in 1..Len(s) : s[i] = t[i]

Init ==
    /\ ctrl_press_count = 0
    /\ since_last_ctrl = DEBOUNCE_WINDOW
    /\ ctrl_action_timer = NoTimer
    /\ timer_remaining = [t \in TimerThreads |-> 0]
    /\ pc = [t \in Threads |-> IF t \in TimerThreads THEN "free" ELSE "idle"]
    /\ audio_data = [t \in Threads |-> None]
    /\ inactive_duration = 0
    /\ is_sleeping = FALSE
    /\ is_model_loaded = TRUE
    /\ main_is_recording = FALSE
    /\ processing_queue = <<>>
    /\ live_workers = 0
    /\ mpc = "wait"
    /\ m_inactive = 0
    /\ startup_pc = "load_model"
    /\ wpc = "get"
    /\ job = None
    /\ is_recording = FALSE
    /\ audio_buffer = <<>>
    /\ stream_ref = FALSE
    /\ open_streams = 0
    /\ next_chunk = 1
    /\ cb_pc = "idle"
    /\ session_base = 0
    /\ last_gap_short = FALSE
    /\ last_release = "none"
    /\ timer_hist = [t \in TimerThreads |-> NoHist]
    /\ woke = [t \in Threads |-> NoWake]
    /\ snap = None
    /\ live_pc = [i \in LiveWorkers |-> "off"]
    /\ live_old = [i \in LiveWorkers |-> FALSE]
    /\ w_text = NoText
    /\ w_exc = "none"
    /\ w_out = <<>>
    /\ transcription_history = <<>>
    /\ model = NoModel
    /\ model_size = "medium"
    /\ rpc = "idle"
    /\ r_name = "medium"
    /\ cur_signal = "none"
    /\ run_fired = 0
    /\ sp_cue = "none"
    /\ instance = "running"
    /\ lock_file = "instance"
    /\ cmd_pc = "none"
    /\ cmd_pid = "None"
    /\ cmd_arg = "none"
    /\ sig_pending = "none"
    /\ tray_pc = "idle"
    /\ cb_base = 0
    /\ vc_text = NoText
    /\ vc_result = NoResult

\* ---- keyboard.py ----

\* threading.Timer.cancel(): a timer still waiting never runs its function;
\* one that has already woken up is not affected
Cancel(p, t) ==
    IF t # NoTimer /\ p[t] = "armed" THEN [p EXCEPT ![t] = "free"] ELSE p

FreeTimers(p) == {t \in TimerThreads : p[t] = "free"}
FirstFree(p) == CHOOSE t \in FreeTimers(p) : \A u \in FreeTimers(p) : t <= u

Remaining(p, r) == [t \in TimerThreads |-> IF p[t] = "armed" THEN r[t] ELSE 0]

\* history: every live timer has seen one more release
Disturb(p, h) ==
    [t \in TimerThreads |->
        IF p[t] = "free" THEN NoHist ELSE [h[t] EXCEPT !.disturbed = TRUE]]

\* mutant: the recording test of line 77 is left out
TripleDispatched_Always(recording) == TRUE

\* _on_key_release, lines 76-77: is _on_triple_ctrl called
TripleDispatched(recording) == ~recording

\* history: one more gesture action was invoked in the current run of
\* releases less than 500 ms apart (0, 1, or 2 for "more than one")
Fired(n) == IF n = 0 THEN 1 ELSE 2

\* _on_key_release(key), up to the call of _on_triple_ctrl
OnKeyRelease(key) ==
    /\ startup_pc = "done"
    /\ pc[ListenerThread] = "idle"
    /\ IF key \notin CtrlKeys
       THEN UNCHANGED vars
       ELSE
        LET short == since_last_ctrl < DEBOUNCE_WINDOW
            n == ctrl_press_count + 1
            cancelled == Cancel(pc, ctrl_action_timer)
        IN
        /\ since_last_ctrl' = 0
        /\ last_gap_short' = short
        /\ IF short /\ n = 2 THEN
              \* Double Ctrl detected: (re)arm the 300 ms timer
              /\ FreeTimers(cancelled) # {}
              /\ LET s == FirstFree(cancelled)
                     armed == [cancelled EXCEPT ![s] = "armed"]
                 IN
                 /\ pc' = armed
                 /\ timer_remaining' =
                        Remaining(armed, [timer_remaining EXCEPT ![s] = TIMER_INTERVAL])
                 /\ ctrl_action_timer' = s
                 /\ timer_hist' =
                        [Disturb(cancelled, timer_hist) EXCEPT
                            ![s] = [NoHist EXCEPT
                                      !.fresh = ~last_gap_short,
                                      !.alone = \A u \in TimerThreads \ {s} :
                                                    cancelled[u] = "free"]]
              /\ ctrl_press_count' = n
              /\ last_release' = "armed"
           ELSE IF short /\ n >= 3 THEN
              \* Triple Ctrl: cancel the Double timer, open history unless recording
              /\ ctrl_action_timer' = NoTimer
              /\ ctrl_press_count' = 0
              /\ pc' = [cancelled EXCEPT
                          ![ListenerThread] =
                              IF TripleDispatched(is_recording) THEN "ua" ELSE "idle"]
              /\ last_release' =
                    IF TripleDispatched(is_recording) THEN "triple" ELSE "suppressed"
              /\ timer_remaining' = Remaining(cancelled, timer_remaining)
              /\ timer_hist' =
                    [t \in TimerThreads |->
                        IF cancelled[t] = "free" THEN NoHist
                        ELSE [timer_hist[t] EXCEPT
                                !.disturbed = TRUE,
                                !.tripled = @ \/ (t = ctrl_action_timer
                                                /\ TripleDispatched(is_recording))]]
           ELSE IF short THEN
              /\ ctrl_press_count' = n
              /\ last_release' = "first"
              /\ timer_hist' = Disturb(pc, timer_hist)
              /\ UNCHANGED <<ctrl_action_timer, pc, timer_remaining>>
           ELSE
              \* too much time between releases: restart the sequence
              /\ ctrl_action_timer' = NoTimer
              /\ ctrl_press_count' = 1
              /\ last_release' = "first"
              /\ pc' = cancelled
              /\ timer_remaining' = Remaining(cancelled, timer_remaining)
              /\ timer_hist' = Disturb(cancelled, timer_hist)
        /\ run_fired' =
              IF ~short THEN 0
              ELSE IF n >= 3 /\ TripleDispatched(is_recording)
                   THEN Fired(run_fired)
                   ELSE run_fired
        /\ UNCHANGED <<audio_data, sessionVars, recordVars, processing_queue,
                       monitorVars, workerVars, startup_pc, streamVars, captureVars, woke, snap,
                       liveVars, pipeVars, modelVars, cur_signal, sp_cue,
                       trayVars, voiceVars,
                   cmdVars>>

\* 100 ms pass.  A timer wakes up when its interval is over; the steps of
\* _execute_double_ctrl_action around the call of the action take no time,
\* the action itself may take any time.
Tick ==
    /\ \A t \in TimerThreads :
            /\ pc[t] = "armed" => timer_remaining[t] > 0
            /\ pc[t] \notin {"expired", "call", "reset"}
    /\ since_last_ctrl' = Min(since_last_ctrl + 1, DEBOUNCE_WINDOW)
    /\ timer_remaining' =
            [t \in TimerThreads |->
                IF pc[t] = "armed" THEN timer_remaining[t] - 1 ELSE 0]
    /\ run_fired' = IF since_last_ctrl + 1 >= DEBOUNCE_WINDOW THEN 0 ELSE run_fired
    /\ UNCHANGED <<ctrl_press_count, ctrl_action_timer, pc, audio_data,
                   sessionVars, recordVars, processing_queue, monitorVars,
                   workerVars, startup_pc, streamVars, captureVars, histVars,
                   liveVars, pipeVars, modelVars, cur_signal, sp_cue, trayVars, voiceVars,
                   cmdVars>>

\* mutant: the timer runs its function without waiting
TimerExpire_Early(t) ==
    /\ pc[t] = "armed"
    /\ pc' = [pc EXCEPT ![t] = "expired"]
    /\ UNCHANGED <<keyboardVars, audio_data, sessionVars, recordVars,
                   processing_queue, monitorVars, workerVars, startup_pc, streamVars,
                   captureVars, histVars,
                   liveVars, pipeVars, modelVars, cur_signal,
                   run_fired, sp_cue, trayVars, voiceVars,
                   cmdVars>>

\* threading.Timer.run(): the wait is over and the timer was not cancelled
TimerExpire(t) ==
    /\ pc[t] = "armed"
    /\ timer_remaining[t] = 0
    /\ pc' = [pc EXCEPT ![t] = "expired"]
    /\ UNCHANGED <<keyboardVars, audio_data, sessionVars, recordVars,
                   processing_queue, monitorVars, workerVars, startup_pc, streamVars,
                   captureVars, histVars,
                   liveVars, pipeVars, modelVars, cur_signal,
                   run_fired, sp_cue, trayVars, voiceVars,
                   cmdVars>>

\* _execute_double_ctrl_action, the test of line 42
TimerCheck(t) ==
    /\ pc[t] = "expired"
    /\ pc' = [pc EXCEPT ![t] = IF ctrl_press_count = 2 THEN "call" ELSE "reset"]
    /\ UNCHANGED <<keyboardVars, audio_data, sessionVars, recordVars,
                   processing_queue, monitorVars, workerVars, startup_pc, streamVars,
                   captureVars, histVars,
                   liveVars, pipeVars, modelVars, cur_signal,
                   run_fired, sp_cue, trayVars, voiceVars,
                   cmdVars>>

\* _execute_double_ctrl_action, the call of line 43
TimerCall(t) ==
    /\ pc[t] = "call"
    /\ pc' = [pc EXCEPT ![t] = "ua"]
    /\ run_fired' = Fired(run_fired)
    /\ UNCHANGED <<keyboardVars, audio_data, sessionVars, recordVars,
                   processing_queue, monitorVars, workerVars, startup_pc,
                   streamVars, captureVars, histVars,
                   liveVars, pipeVars, modelVars, cur_signal, sp_cue, trayVars, voiceVars,
                   cmdVars>>

\* _execute_double_ctrl_action, lines 45-46
TimerReset(t) ==
    /\ pc[t] = "reset"
    /\ ctrl_press_count' = 0
    /\ ctrl_action_timer' = NoTimer
    /\ pc' = [pc EXCEPT ![t] = "free"]
    /\ timer_hist' = [timer_hist EXCEPT ![t] = NoHist]
    /\ woke' = [woke EXCEPT ![t] = NoWake]
    /\ UNCHANGED <<since_last_ctrl, timer_remaining, audio_data, sessionVars,
                   recordVars, processing_queue, monitorVars, workerVars, startup_pc,
                   streamVars, captureVars, last_gap_short, last_release,
                   snap,
                   liveVars, pipeVars, modelVars, cur_signal,
                   run_fired, sp_cue, trayVars, voiceVars,
                   cmdVars>>

\* ---- audio.py ----

\* stop_stream(): the effect on <<_stream, open streams>>
StopStream(ref, open) ==
    IF ref THEN <<FALSE, open - 1>> ELSE <<ref, open>>

\* start_stream(), lines 255-277 up to the assignment: stop the stream
\* referenced by _stream, open a new one (sd.InputStream(...))
OpenStream(ref, open) ==
    <<StopStream(ref, open)[1], StopStream(ref, open)[2] + 1>>

\* start_stream() as a whole: the new stream is assigned to _stream
StartStream(ref, open) ==
    <<TRUE, OpenStream(ref, open)[2]>>

\* mutant: the peek returns only the newest block
GetCurrentBuffer_Latest(buf) ==
    IF buf = <<>> THEN None ELSE Concatenate(<<buf[Len(buf)]>>)

\* get_current_buffer(): the concatenation of the blocks recorded so far
GetCurrentBuffer(buf) ==
    IF buf = <<>> THEN None ELSE Concatenate(buf)

\* _audio_callback(indata, ...), line 238: the stream's thread tests
\* is_recording; a block that arrives while not recording is dropped
AudioCallbackTest ==
    /\ open_streams > 0
    /\ cb_pc = "idle"
    /\ is_recording
    /\ next_chunk <= MaxChunks
    /\ cb_pc' = "append"
    /\ cb_base' = session_base
    /\ UNCHANGED <<keyboardVars, pc, audio_data, sessionVars, recordVars,
                   processing_queue, monitorVars, workerVars, startup_pc,
                   streamVars, next_chunk, session_base, histVars,
                   liveVars, pipeVars, modelVars, cur_signal,
                   run_fired, sp_cue, trayVars, voiceVars,
                   cmdVars>>

\* _audio_callback, line 239: audio_buffer.append(indata.copy())
AudioCallbackAppend ==
    /\ cb_pc = "append"
    /\ \E n \in BlockSizes :
         audio_buffer' = Append(audio_buffer, [id |-> next_chunk, frames |-> n])
    /\ next_chunk' = next_chunk + 1
    /\ cb_pc' = "idle"
    /\ cb_base' = 0
    /\ UNCHANGED <<keyboardVars, pc, audio_data, sessionVars, main_is_recording,
                   is_recording, live_workers, processing_queue, monitorVars,
                   workerVars, startup_pc, streamVars, session_base, histVars,
                   liveVars, pipeVars, modelVars, cur_signal,
                   run_fired, sp_cue, trayVars, voiceVars,
                   cmdVars>>

AudioCallback == AudioCallbackTest \/ AudioCallbackAppend

\* ---- main.py ----

\* where a thread continues after update_activity / after its action
AfterActivity(t) == IF t = ListenerThread THEN "hist" ELSE "toggle"
Return(t) == IF t \in TimerThreads THEN "reset" ELSE "idle"

\* mutant: update_activity without the wake-up branch of lines 93-97
UpdateActivity_NoWake(t) ==
    /\ pc[t] = "ua"
    /\ inactive_duration' = 0
    /\ woke' = [woke EXCEPT ![t] = [saw |-> is_sleeping, started |-> FALSE]]
    /\ pc' = [pc EXCEPT ![t] = AfterActivity(t)]
    /\ is_model_loaded' = (is_sleeping => is_model_loaded)
    /\ UNCHANGED <<keyboardVars, audio_data, is_sleeping,
                   recordVars, processing_queue, monitorVars, workerVars, startup_pc,
                   streamVars, captureVars, last_gap_short, last_release,
                   timer_hist, snap,
                   liveVars, pipeVars, modelVars, cur_signal,
                   run_fired, sp_cue, trayVars, voiceVars,
                   cmdVars>>

\* update_activity(), lines 91-93, and when not sleeping lines 99-104
UpdateActivity(t) ==
    /\ pc[t] = "ua"
    /\ inactive_duration' = 0
    /\ woke' = [woke EXCEPT ![t] = [saw |-> is_sleeping, started |-> FALSE]]
    /\ pc' = [pc EXCEPT ![t] = IF is_sleeping THEN "ua_wake" ELSE AfterActivity(t)]
    /\ is_model_loaded' = (is_sleeping => is_model_loaded)
    /\ UNCHANGED <<keyboardVars, audio_data, is_sleeping,
                   recordVars, processing_queue, monitorVars, workerVars, startup_pc,
                   streamVars, captureVars, last_gap_short, last_release,
                   timer_hist, snap,
                   liveVars, pipeVars, modelVars, cur_signal,
                   run_fired, sp_cue, trayVars, voiceVars,
                   cmdVars>>

\* update_activity(), line 95
WakeUp(t) ==
    /\ pc[t] = "ua_wake"
    /\ is_sleeping' = FALSE
    /\ pc' = [pc EXCEPT ![t] = "ua_stream"]
    /\ UNCHANGED <<keyboardVars, audio_data, inactive_duration, is_model_loaded,
                   recordVars, processing_queue, monitorVars, workerVars, startup_pc,
                   streamVars, captureVars, histVars,
                   liveVars, pipeVars, modelVars, cur_signal,
                   run_fired, sp_cue, trayVars, voiceVars,
                   cmdVars>>

\* update_activity(), line 96: audio.start_stream() up to the point where
\* the new stream is open and not yet assigned to _stream
WakeOpenStream(t) ==
    /\ pc[t] = "ua_stream"
    /\ stream_ref' = OpenStream(stream_ref, open_streams)[1]
    /\ open_streams' = OpenStream(stream_ref, open_streams)[2]
    /\ pc' = [pc EXCEPT ![t] = "ua_assign"]
    /\ UNCHANGED <<keyboardVars, audio_data, sessionVars,
                   recordVars, processing_queue, monitorVars, workerVars,
                   startup_pc, captureVars, histVars,
                   liveVars, pipeVars, modelVars, cur_signal,
                   run_fired, sp_cue, trayVars, voiceVars,
                   cmdVars>>

\* update_activity(), line 96: start_stream() assigns _stream and returns,
\* then lines 99-104
WakeStartStream(t) ==
    /\ pc[t] = "ua_assign"
    /\ stream_ref' = TRUE
    /\ open_streams' = open_streams
    /\ is_model_loaded' = TRUE
    /\ woke' = [woke EXCEPT ![t].started = TRUE]
    /\ pc' = [pc EXCEPT ![t] = AfterActivity(t)]
    /\ UNCHANGED <<keyboardVars, audio_data, inactive_duration, is_sleeping,
                   recordVars, processing_queue, monitorVars, workerVars,
                   startup_pc, captureVars, last_gap_short, last_release,
                   timer_hist, snap,
                   liveVars, pipeVars, modelVars, cur_signal,
                   run_fired, sp_cue, trayVars, voiceVars,
                   cmdVars>>

\* on_triple_ctrl(), lines 119-120
OpenHistory(t) ==
    /\ pc[t] = "hist"
    /\ pc' = [pc EXCEPT ![t] = "idle"]
    /\ UNCHANGED <<keyboardVars, audio_data, sessionVars, recordVars,
                   processing_queue, monitorVars, workerVars, startup_pc,
                   streamVars, captureVars, histVars,
                   liveVars, pipeVars, modelVars, cur_signal,
                   run_fired, sp_cue, trayVars, voiceVars,
                   cmdVars>>

\* on_double_ctrl(), line 110
ToggleTest(t) ==
    /\ pc[t] = "toggle"
    /\ pc' = [pc EXCEPT ![t] = IF is_recording THEN "stop" ELSE "start"]
    /\ UNCHANGED <<keyboardVars, audio_data, sessionVars, recordVars,
                   processing_queue, monitorVars, workerVars, startup_pc, streamVars,
                   captureVars, histVars,
                   liveVars, pipeVars, modelVars, cur_signal,
                   run_fired, sp_cue, trayVars, voiceVars,
                   cmdVars>>

\* the thread slot taken by the next live_preview_worker
FreeLive == CHOOSE i \in LiveWorkers :
                /\ live_pc[i] = "off"
                /\ \A k \in LiveWorkers : live_pc[k] = "off" => i <= k

\* main.start_recording() with audio.start_recording().  The new
\* live_preview_worker thread is followed while fewer than MaxLive of them
\* are running.
StartRecording(t) ==
    /\ pc[t] = "start"
    /\ main_is_recording' = TRUE
    /\ audio_buffer' = <<>>
    /\ is_recording' = TRUE
    /\ live_old' = [i \in LiveWorkers |-> live_pc[i] # "off"]
    /\ IF live_workers < MaxLive
       THEN /\ live_workers' = live_workers + 1
            /\ live_pc' = [live_pc EXCEPT ![FreeLive] = "test"]
       ELSE UNCHANGED <<live_workers, live_pc>>
    /\ snap' = None
    /\ pc' = [pc EXCEPT ![t] = Return(t)]
    /\ session_base' = next_chunk - 1
    /\ cur_signal' = IF t = MainThread THEN "none" ELSE cur_signal
    /\ sp_cue' = "none"
    /\ UNCHANGED <<keyboardVars, audio_data, sessionVars, processing_queue,
                   monitorVars, workerVars, startup_pc, streamVars, next_chunk,
                   cb_pc, cb_base, last_gap_short, last_release, timer_hist, woke,
                   pipeVars, modelVars, run_fired, trayVars, voiceVars,
                   cmdVars>>

\* mutant: stop_recording without the empty-buffer test of line 331
StopRecordingResult_NeverNone(buf) == Concatenate(buf)

\* audio.stop_recording()
StopRecordingResult(buf) ==
    IF buf = <<>> THEN None ELSE Concatenate(buf)

\* stop_and_process(), lines 146-148
StopRecording(t) ==
    /\ pc[t] = "stop"
    /\ main_is_recording' = FALSE
    /\ is_recording' = FALSE
    /\ audio_data' = [audio_data EXCEPT ![t] = StopRecordingResult(audio_buffer)]
    /\ pc' = [pc EXCEPT ![t] = "sp_check"]
    /\ UNCHANGED <<keyboardVars, sessionVars, audio_buffer, live_workers,
                   processing_queue, monitorVars, workerVars, startup_pc,
                   streamVars, captureVars, histVars, liveVars, pipeVars,
                   modelVars, cur_signal,
                   run_fired, sp_cue, trayVars, voiceVars,
                   cmdVars>>

\* mutant: stop_and_process without the minimum-duration test of line 157
Enqueues_NoMinimum(a) == ~a.isNone

\* stop_and_process(), lines 150-166: is the stopped recording enqueued
Enqueues(a) == ~a.isNone /\ ~(a.len < MIN_SAMPLES)

\* stop_and_process(), lines 150-163: the sound it plays
StopCue(a) ==
    IF a.isNone THEN "error"
    ELSE IF a.len < MIN_SAMPLES THEN "none" ELSE "success"

StopAndProcess(t) ==
    /\ pc[t] = "sp_check"
    /\ sp_cue' = StopCue(audio_data[t])
    /\ processing_queue' =
            IF Enqueues(audio_data[t])
            THEN Append(processing_queue, audio_data[t])
            ELSE processing_queue
    /\ audio_data' = [audio_data EXCEPT ![t] = None]
    /\ snap' = None
    /\ pc' = [pc EXCEPT ![t] = Return(t)]
    /\ cur_signal' = IF t = MainThread THEN "none" ELSE cur_signal
    /\ UNCHANGED <<keyboardVars, sessionVars, recordVars, monitorVars,
                   workerVars, startup_pc, streamVars, captureVars,
                   last_gap_short, last_release, timer_hist, woke, liveVars,
                   pipeVars, modelVars, run_fired, trayVars, voiceVars,
                   cmdVars>>

\* ---- live_preview_worker(), one thread per start_recording ----

\* line 174, "while _is_recording" found true, and lines 175-182
LivePreviewTest(i) ==
    /\ live_pc[i] = "test"
    /\ main_is_recording
    /\ "live_preview_enabled" \in ConfigFields
    /\ live_pc' = [live_pc EXCEPT ![i] = "peek"]
    /\ live_old' = live_old
    /\ UNCHANGED <<keyboardVars, pc, audio_data, sessionVars, recordVars,
                   processing_queue, monitorVars, workerVars, startup_pc,
                   streamVars, captureVars, histVars, pipeVars, modelVars,
                   cur_signal,
                   run_fired, sp_cue, trayVars, voiceVars,
                   cmdVars>>

\* lines 183-186: peek at the buffer of the recording
LivePreviewPeek ==
    \E i \in LiveWorkers :
        /\ live_pc[i] = "peek"
        /\ snap' = IF is_recording THEN GetCurrentBuffer(audio_buffer) ELSE snap
        /\ live_pc' = [live_pc EXCEPT ![i] =
                          IF GetCurrentBuffer(audio_buffer).len > LIVE_MIN_SAMPLES
                          THEN "call" ELSE "test"]
        /\ live_old' = live_old
        /\ UNCHANGED <<keyboardVars, pc, audio_data, sessionVars, recordVars,
                       processing_queue, monitorVars, workerVars, startup_pc,
                       streamVars, captureVars, last_gap_short, last_release,
                       timer_hist, woke, pipeVars, modelVars, cur_signal,
                   run_fired, sp_cue, trayVars, voiceVars,
                   cmdVars>>

\* line 190: transcription.transcribe(audio_16k, fast=True) is entered and
\* reads _model (transcription.py:151); a NameError is caught at line 194
LivePreviewCall(i) ==
    /\ live_pc[i] = "call"
    /\ live_pc' = [live_pc EXCEPT ![i] =
                      IF model \in ModelSizes THEN "fast" ELSE "test"]
    /\ live_old' = live_old
    /\ UNCHANGED <<keyboardVars, pc, audio_data, sessionVars, recordVars,
                   processing_queue, monitorVars, workerVars, startup_pc,
                   streamVars, captureVars, histVars, pipeVars, modelVars,
                   cur_signal,
                   run_fired, sp_cue, trayVars, voiceVars,
                   cmdVars>>

\* mutant: the preview stores its text in the history
LivePreviewReturn_AddsHistory(i) ==
    /\ live_pc[i] = "fast"
    /\ live_pc' = [live_pc EXCEPT ![i] = "test"]
    /\ live_old' = live_old
    /\ \E text \in Texts :
         transcription_history' = Append(transcription_history, text)
    /\ UNCHANGED <<keyboardVars, pc, audio_data, sessionVars, recordVars,
                   processing_queue, monitorVars, workerVars, startup_pc,
                   streamVars, captureVars, histVars, w_text, w_exc, w_out,
                   modelVars, cur_signal,
                   run_fired, sp_cue, trayVars, voiceVars,
                   cmdVars>>

\* lines 190-196: the call returns or raises; send_live_notification
LivePreviewReturn(i) ==
    /\ live_pc[i] = "fast"
    /\ live_pc' = [live_pc EXCEPT ![i] = "test"]
    /\ live_old' = live_old
    /\ UNCHANGED <<keyboardVars, pc, audio_data, sessionVars, recordVars,
                   processing_queue, monitorVars, workerVars, startup_pc,
                   streamVars, captureVars, histVars, pipeVars, modelVars,
                   cur_signal,
                   run_fired, sp_cue, trayVars, voiceVars,
                   cmdVars>>

\* live_preview_worker(), line 174: the loop ends once _is_recording is false
LivePreviewExit ==
    \E i \in LiveWorkers :
        /\ live_pc[i] = "test"
        /\ ~main_is_recording
        /\ live_pc' = [live_pc EXCEPT ![i] = "off"]
        /\ live_old' = [live_old EXCEPT ![i] = FALSE]
        /\ live_workers' = live_workers - 1
        /\ UNCHANGED <<keyboardVars, pc, audio_data, sessionVars,
                       main_is_recording, is_recording, audio_buffer,
                       processing_queue, monitorVars, workerVars, startup_pc,
                       streamVars, captureVars, histVars, pipeVars, modelVars,
                       cur_signal,
                   run_fired, sp_cue, trayVars, voiceVars,
                   cmdVars>>

\* ---- audio_processing_loop() ----

\* something the worker does for the job in hand
Ev(e) == [ev |-> e, text |-> NoText, enter |-> FALSE]
Paste(text, press_enter) == [ev |-> "paste", text |-> text, enter |-> press_enter]

\* voice_commands.py.  A text is a sequence of words and newline
\* characters; words next to each other are separated by one space.  A
\* spoken newline command ("new line") is one word here.
Newline == "\n"
NEWLINE_PATTERNS == {"new line"}
VALIDATE_KEYWORDS == {"enter"}
HALLUCINATIONS == {<<"beep">>}

\* lines 80-88: re.sub(pattern, '\n', text) for every newline pattern, then
\* the spaces around the newlines are removed
ReplaceNewlineCommands(text) ==
    [i \in 1..Len(text) |->
        IF text[i] \in NEWLINE_PATTERNS THEN Newline ELSE text[i]]

\* line 91: text.strip().split(), the words between any white space
Split(text) == SelectSeq(text, LAMBDA w : w # Newline)

\* line 93: word.lower().rstrip('.,!?;:')
LowerRstrip(word) == IF word = "Enter." THEN "enter" ELSE word

\* process_voice_commands(text): a text that is a known hallucination gives
\* ("", False) (lines 71-75); newline commands become newlines; when the
\* last word is a validation keyword the result is ' '.join(words[:-1])
\* and asks for Enter (lines 90-100)
ProcessVoiceCommands(text) ==
    IF text \in HALLUCINATIONS
    THEN [text |-> NoText, validate |-> FALSE]
    ELSE LET replaced == ReplaceNewlineCommands(text)
             words == Split(replaced)
         IN IF words # <<>>
               /\ LowerRstrip(words[Len(words)]) \in VALIDATE_KEYWORDS
            THEN [text |-> SubSeq(words, 1, Len(words) - 1), validate |-> TRUE]
            ELSE [text |-> replaced, validate |-> FALSE]

\* texts handed to process_voice_commands: up to MaxWords words
VoiceWords == {"hello", "enter", "Enter.", "new line", "beep"}
VoiceInputs == UNION {[1..n -> VoiceWords] : n \in 1..MaxWords}

\* process_voice_commands(text) is called and returns
VoiceCommandsCall ==
    \E text \in VoiceInputs :
        /\ vc_text' = text
        /\ vc_result' = [text |-> ProcessVoiceCommands(text).text,
                         validate |-> ProcessVoiceCommands(text).validate,
                         returned |-> TRUE]
        /\ UNCHANGED <<keyboardVars, pc, audio_data, sessionVars, recordVars,
                       processing_queue, monitorVars, workerVars, startup_pc,
                       streamVars, captureVars, histVars, liveVars, pipeVars,
                       modelVars, cur_signal, run_fired, sp_cue, trayVars,
                       cmdVars>>

\* mutant: the worker takes the job put on the queue last
QueueGet_Last(q) == [item |-> q[Len(q)], rest |-> SubSeq(q, 1, Len(q) - 1)]

\* queue.Queue.get(): the oldest item
QueueGet(q) == [item |-> Head(q), rest |-> Tail(q)]

\* lines 207-220: processing_queue.get(), playback, prepare_for_whisper
WorkerGet ==
    /\ startup_pc # "load_model"
    /\ wpc = "get"
    /\ processing_queue # <<>>
    /\ job' = QueueGet(processing_queue).item
    /\ processing_queue' = QueueGet(processing_queue).rest
    /\ w_text' = NoText
    /\ w_exc' = "none"
    /\ w_out' = <<>>
    /\ wpc' = "transcribe"
    /\ UNCHANGED <<keyboardVars, pc, audio_data, sessionVars, recordVars,
                   monitorVars, startup_pc, streamVars, captureVars, histVars,
                   liveVars, transcription_history, modelVars,
                   cur_signal,
                   run_fired, sp_cue, trayVars, voiceVars,
                   cmdVars>>

\* lines 241-260: what the worker does with the processed text
Deliver(text, r) ==
    IF r.text # NoText
    THEN <<Paste(r.text, r.validate), [Ev("history") EXCEPT !.text = text],
           Ev("notify_ok")>>
    ELSE IF r.validate THEN <<Ev("press_enter"), Ev("notify_ok")>> ELSE <<>>

\* lines 261-263: play_sound("error"), "No text detected" (dialog-warning)
NothingDetected == <<Ev("sound_error"), Ev("notify_warning")>>

\* mutant: the except clause reports nothing
ExceptClause_Silent == <<>>

\* lines 265-268: play_sound("error"), "Error: ..." (dialog-error)
ExceptClause == <<Ev("sound_error"), Ev("notify_error")>>

\* mutant: the Config object has the attribute voice_commands_enabled
HandleText_Configured(text, enabled) ==
    Deliver(text, IF enabled THEN ProcessVoiceCommands(text)
                  ELSE [text |-> text, validate |-> FALSE])

\* lines 229-260 for a non-empty text: reading config.voice_commands_enabled
\* raises AttributeError when Config has no such attribute, and the except
\* clause of line 265 handles it; enabled is the value of the attribute
HandleText(text, enabled) ==
    IF "voice_commands_enabled" \notin ConfigFields
    THEN ExceptClause
    ELSE Deliver(text, IF enabled THEN ProcessVoiceCommands(text)
                       ELSE [text |-> text, validate |-> FALSE])

\* history.add_to_history(text) for each "history" entry of what was done
AddToHistory(h, out) ==
    h \o [i \in 1..Len(SelectSeq(out, LAMBDA e : e.ev = "history")) |->
             SelectSeq(out, LAMBDA e : e.ev = "history")[i].text]

\* line 225: transcription.transcribe(audio_16k) is entered and reads _model
\* (transcription.py:151): None gives "", a deleted name raises NameError
WorkerTranscribe ==
    /\ wpc = "transcribe"
    /\ w_exc' = IF model = Unbound THEN "NameError" ELSE "none"
    /\ CASE model = Unbound -> w_out' = ExceptClause /\ wpc' = "idle"
         [] model = NoModel -> w_out' = NothingDetected /\ wpc' = "idle"
         [] OTHER -> w_out' = w_out /\ wpc' = "inference"
    /\ UNCHANGED <<keyboardVars, pc, audio_data, sessionVars, recordVars,
                   processing_queue, monitorVars, job, startup_pc, streamVars,
                   captureVars, histVars, liveVars, w_text,
                   transcription_history, modelVars, cur_signal,
                   run_fired, sp_cue, trayVars, voiceVars,
                   cmdVars>>

\* transcription.py:158-171 and main.py:227-268: the call returns a text,
\* returns the empty string, or raises, and the worker handles the outcome
WorkerInference ==
    /\ wpc = "inference"
    /\ \/ \E text \in Texts, enabled \in BOOLEAN :
            /\ w_text' = text
            /\ w_exc' = IF "voice_commands_enabled" \in ConfigFields
                        THEN "none" ELSE "AttributeError"
            /\ w_out' = HandleText(text, enabled)
       \/ w_text' = NoText /\ w_exc' = "none" /\ w_out' = NothingDetected
       \/ w_text' = NoText /\ w_exc' = "transcribe" /\ w_out' = ExceptClause
    /\ transcription_history' = AddToHistory(transcription_history, w_out')
    /\ wpc' = "idle"
    /\ UNCHANGED <<keyboardVars, pc, audio_data, sessionVars, recordVars,
                   processing_queue, monitorVars, job, startup_pc, streamVars,
                   captureVars, histVars, liveVars, modelVars, cur_signal,
                   run_fired, sp_cue, trayVars, voiceVars,
                   cmdVars>>

\* lines 270-271: tray.update_tray("idle"), back to the top of the loop
WorkerIdle ==
    /\ wpc = "idle"
    /\ w_out' = <<>>
    /\ w_text' = NoText
    /\ w_exc' = "none"
    /\ job' = None
    /\ wpc' = "get"
    /\ UNCHANGED <<keyboardVars, pc, audio_data, sessionVars, recordVars,
                   processing_queue, monitorVars, startup_pc, streamVars,
                   captureVars, histVars, liveVars, transcription_history,
                   modelVars, cur_signal,
                   run_fired, sp_cue, trayVars, voiceVars,
                   cmdVars>>

\* ---- tray._on_select_model and transcription.reload_model ----

\* tray.py:261-270: a model of another size is selected in the tray menu
\* and a _reload thread is started
TraySelectModel(name) ==
    /\ rpc = "idle"
    /\ model_size # name
    /\ r_name' = name
    /\ rpc' = "delete"
    /\ UNCHANGED <<keyboardVars, pc, audio_data, sessionVars, recordVars,
                   processing_queue, monitorVars, workerVars, startup_pc,
                   streamVars, captureVars, histVars, liveVars, pipeVars,
                   model, model_size, cur_signal,
                   run_fired, sp_cue, trayVars, voiceVars,
                   cmdVars>>

\* transcription.py:99-101: "if _model: del _model"; the test raises
\* NameError when an earlier reload left the name deleted
ReloadDelete ==
    /\ rpc = "delete"
    /\ model' = IF model \in ModelSizes THEN Unbound ELSE model
    /\ rpc' = IF model = Unbound THEN "fallback" ELSE "load"
    /\ UNCHANGED <<keyboardVars, pc, audio_data, sessionVars, recordVars,
                   processing_queue, monitorVars, workerVars, startup_pc,
                   streamVars, captureVars, histVars, liveVars, pipeVars,
                   model_size, r_name, cur_signal,
                   run_fired, sp_cue, trayVars, voiceVars,
                   cmdVars>>

\* transcription.py:104-117: the new model is built on GPU or CPU and
\* assigned, or both attempts raise
ReloadLoad ==
    /\ rpc = "load"
    /\ \/ model' = r_name /\ model_size' = r_name /\ rpc' = "idle"
       \/ UNCHANGED <<model, model_size>> /\ rpc' = "fallback"
    /\ UNCHANGED <<keyboardVars, pc, audio_data, sessionVars, recordVars,
                   processing_queue, monitorVars, workerVars, startup_pc,
                   streamVars, captureVars, histVars, liveVars, pipeVars,
                   r_name, cur_signal,
                   run_fired, sp_cue, trayVars, voiceVars,
                   cmdVars>>

\* transcription.py:119-135: the model "medium" is loaded instead, or that
\* fails too and the handle stays as it is
ReloadFallback ==
    /\ rpc = "fallback"
    /\ \/ model' = "medium" /\ model_size' = "medium"
       \/ UNCHANGED <<model, model_size>>
    /\ rpc' = "idle"
    /\ UNCHANGED <<keyboardVars, pc, audio_data, sessionVars, recordVars,
                   processing_queue, monitorVars, workerVars, startup_pc,
                   streamVars, captureVars, histVars, liveVars, pipeVars,
                   r_name, cur_signal,
                   run_fired, sp_cue, trayVars, voiceVars,
                   cmdVars>>

\* ---- tray._on_select_source, run by the main thread in tray.run_tray ----

\* the frame of a step of the menu handler; a signal handler that interrupts
\* the main thread returns before the menu handler goes on
TrayFrame ==
    /\ pc[MainThread] = "idle"
    /\ UNCHANGED <<keyboardVars, pc, audio_data, sessionVars, recordVars,
                   processing_queue, monitorVars, workerVars, startup_pc,
                   captureVars, histVars, liveVars, pipeVars, modelVars,
                   cur_signal, run_fired, sp_cue, voiceVars, cmdVars>>

\* tray.py:277-283: a microphone is selected in the menu; config.input_device
\* is set and saved, restart_stream() is entered
TraySelectSource ==
    /\ tray_pc = "idle"
    /\ tray_pc' = "stop"
    /\ UNCHANGED streamVars
    /\ TrayFrame

\* restart_stream(), line 306: stop_stream()
TrayStopStream ==
    /\ tray_pc = "stop"
    /\ stream_ref' = StopStream(stream_ref, open_streams)[1]
    /\ open_streams' = StopStream(stream_ref, open_streams)[2]
    /\ tray_pc' = "open"
    /\ TrayFrame

\* restart_stream(), line 307: start_stream() up to the point where the new
\* stream is open and not yet assigned to _stream
TrayOpenStream ==
    /\ tray_pc = "open"
    /\ stream_ref' = OpenStream(stream_ref, open_streams)[1]
    /\ open_streams' = OpenStream(stream_ref, open_streams)[2]
    /\ tray_pc' = "assign"
    /\ TrayFrame

\* start_stream() assigns _stream and returns; the menu is refreshed
TrayAssignStream ==
    /\ tray_pc = "assign"
    /\ stream_ref' = TRUE
    /\ open_streams' = open_streams
    /\ tray_pc' = "idle"
    /\ TrayFrame

\* signal_handler(signum, frame), run by the main thread
HandleSignal(signum) ==
    /\ pc[MainThread] = "idle"
    /\ LET calls == \/ signum = "SIGUSR1"
                    \/ signum = "SIGUSR2" /\ ~is_recording
                    \/ signum = "SIGRTMIN" /\ is_recording
       IN /\ pc' = [pc EXCEPT ![MainThread] = IF calls THEN "ua" ELSE "idle"]
          /\ cur_signal' = IF calls THEN signum ELSE "none"
    /\ UNCHANGED <<keyboardVars, audio_data, sessionVars, recordVars,
                   processing_queue, monitorVars, workerVars, startup_pc,
                   streamVars, captureVars, histVars, liveVars, pipeVars,
                   modelVars, run_fired, sp_cue, trayVars, voiceVars>>

\* a signal sent by any process (kill -USR1, remote_control.py) is handled
SignalHandler(signum) == HandleSignal(signum) /\ UNCHANGED cmdVars

\* ---- main(), run by a second process with --toggle, --start or --stop ----

CmdArgs == {"toggle", "start", "stop"}

\* main.py:412-419: the signal sent for an option
SignalOf(arg) ==
    CASE arg = "start" -> "SIGUSR2"
      [] arg = "stop" -> "SIGRTMIN"
      [] OTHER -> "SIGUSR1"

\* main.py:405-408: a process is started with one of the options
CmdRun(arg) ==
    /\ cmd_pc \in {"none", "exit0", "exit1"}
    /\ cmd_pc' = "lookup"
    /\ cmd_arg' = arg
    /\ cmd_pid' = "None"
    /\ UNCHANGED <<instanceVars, instance, lock_file, sig_pending>>

\* main.py:405-433: a process is started without a command option and goes
\* straight to check_single_instance()
AppRun ==
    /\ cmd_pc \in {"none", "exit0", "exit1"}
    /\ cmd_pc' = "check"
    /\ cmd_arg' = "none"
    /\ cmd_pid' = "None"
    /\ UNCHANGED <<instanceVars, instance, lock_file, sig_pending>>

\* get_running_pid(), lines 386-397: the content of the lock file, or None
\* when the file is absent or empty
GetRunningPid(file) == IF file \in {"absent", "empty"} THEN "None" ELSE file

\* main.py:409-410 and 428-430
CmdGetRunningPid ==
    /\ cmd_pc = "lookup"
    /\ cmd_pid' = GetRunningPid(lock_file)
    /\ cmd_pc' = IF GetRunningPid(lock_file) = "None" THEN "exit1" ELSE "kill"
    /\ UNCHANGED <<instanceVars, instance, lock_file, cmd_arg, sig_pending>>

\* main.py:421-427: os.kill(pid, sig).  The signal reaches the process with
\* this pid; when that process no longer exists, kill raises
\* ProcessLookupError, whose handler prints and does not exit, unless the
\* pid was given to another process meanwhile (the signal goes there, or
\* kill raises PermissionError and line 427 exits)
CmdKill ==
    /\ cmd_pc = "kill"
    /\ IF cmd_pid = "instance" /\ instance = "running"
       THEN /\ sig_pending' = SignalOf(cmd_arg)
            /\ cmd_pc' = "exit0"
       ELSE /\ sig_pending' = sig_pending
            /\ cmd_pc' \in {"check", "exit0", "exit1"}
    /\ UNCHANGED <<instanceVars, instance, lock_file, cmd_pid, cmd_arg>>

\* main.py:433-438 with check_single_instance(), lines 359-383: open(.., "w")
\* empties the file; the lock is free unless the instance runs and holds it
CmdCheckSingleInstance ==
    /\ cmd_pc = "check"
    /\ IF instance = "running"
       THEN lock_file' = "empty" /\ cmd_pc' = "exit0"
       ELSE lock_file' = "command" /\ cmd_pc' = "app"
    /\ UNCHANGED <<instanceVars, instance, cmd_pid, cmd_arg, sig_pending>>

\* the signal sent by os.kill is handled by the instance's main thread
SignalDelivered ==
    /\ instance = "running"
    /\ sig_pending # "none"
    /\ HandleSignal(sig_pending)
    /\ sig_pending' = "none"
    /\ UNCHANGED <<instance, lock_file, cmd_pc, cmd_pid, cmd_arg>>

\* on_quit(), line 341: os._exit(0); the lock is released with the process,
\* the lock file and its content stay
OnQuit ==
    /\ instance = "running"
    /\ instance' = "exited"
    /\ UNCHANGED <<instanceVars, lock_file, cmd_pc, cmd_pid, cmd_arg,
                   sig_pending>>

\* /tmp is cleaned (reboot) while no process holds the lock
LockFileRemoved ==
    /\ instance = "exited"
    /\ cmd_pc # "app"
    /\ lock_file # "absent"
    /\ lock_file' = "absent"
    /\ UNCHANGED <<instanceVars, instance, cmd_pc, cmd_pid, cmd_arg,
                   sig_pending>>

\* positions of a thread inside on_double_ctrl or on_triple_ctrl
InAction == {"ua", "ua_wake", "ua_stream", "ua_assign", "toggle", "start",
             "stop", "sp_check", "hist"}

\* seconds pass without activity; an action that has begun takes far less
Elapse ==
    /\ \A t \in Threads : pc[t] \notin InAction
    /\ \E d \in InactivitySamples :
         /\ d > inactive_duration
         /\ inactive_duration' = d
    /\ UNCHANGED <<keyboardVars, pc, audio_data, is_sleeping, is_model_loaded,
                   recordVars, processing_queue, monitorVars, workerVars,
                   startup_pc, streamVars, captureVars, histVars,
                   liveVars, pipeVars, modelVars, cur_signal,
                   run_fired, sp_cue, trayVars, voiceVars,
                   cmdVars>>

\* sleep_monitor_worker(), lines 284-286
MonitorPoll ==
    /\ mpc = "wait"
    /\ m_inactive' = inactive_duration
    /\ mpc' = "check"
    /\ UNCHANGED <<keyboardVars, pc, audio_data, sessionVars, recordVars,
                   processing_queue, workerVars, startup_pc, streamVars,
                   captureVars, histVars,
                   liveVars, pipeVars, modelVars, cur_signal,
                   run_fired, sp_cue, trayVars, voiceVars,
                   cmdVars>>

\* sleep_monitor_worker(), lines 288-289
MonitorCheck ==
    /\ mpc = "check"
    /\ mpc' = IF ~is_sleeping /\ ~is_recording /\ m_inactive > AUTO_SLEEP_TIMEOUT
              THEN "set" ELSE "unload"
    /\ UNCHANGED <<keyboardVars, pc, audio_data, sessionVars, recordVars,
                   processing_queue, m_inactive, workerVars, startup_pc,
                   streamVars, captureVars, histVars,
                   liveVars, pipeVars, modelVars, cur_signal,
                   run_fired, sp_cue, trayVars, voiceVars,
                   cmdVars>>

\* sleep_monitor_worker(), line 292
MonitorSleep ==
    /\ mpc = "set"
    /\ is_sleeping' = TRUE
    /\ mpc' = "stop"
    /\ UNCHANGED <<keyboardVars, pc, audio_data, inactive_duration,
                   is_model_loaded, recordVars, processing_queue, m_inactive,
                   workerVars, startup_pc, streamVars, captureVars, histVars,
                   liveVars, pipeVars, modelVars, cur_signal,
                   run_fired, sp_cue, trayVars, voiceVars,
                   cmdVars>>

\* sleep_monitor_worker(), line 294: audio.stop_stream()
MonitorStopStream ==
    /\ mpc = "stop"
    /\ stream_ref' = StopStream(stream_ref, open_streams)[1]
    /\ open_streams' = StopStream(stream_ref, open_streams)[2]
    /\ mpc' = "unload"
    /\ UNCHANGED <<keyboardVars, pc, audio_data, sessionVars, recordVars,
                   processing_queue, m_inactive, workerVars, startup_pc,
                   captureVars, histVars,
                   liveVars, pipeVars, modelVars, cur_signal,
                   run_fired, sp_cue, trayVars, voiceVars,
                   cmdVars>>

\* sleep_monitor_worker(), lines 296-306.  Reading an attribute the Config
\* object does not have raises AttributeError, which ends the thread; so does
\* the call of transcription.unload_model, which the module does not define.
MonitorUnload ==
    /\ mpc = "unload"
    /\ mpc' = IF "unload_model_after_inactivity" \notin ConfigFields
              THEN "dead"
              ELSE IF is_model_loaded /\ ~is_recording
                      /\ m_inactive > MODEL_UNLOAD_TIMEOUT
                   THEN "dead"
                   ELSE "wait"
    /\ UNCHANGED <<keyboardVars, pc, audio_data, sessionVars, recordVars,
                   processing_queue, m_inactive, workerVars, startup_pc,
                   streamVars, captureVars, histVars,
                   liveVars, pipeVars, modelVars, cur_signal,
                   run_fired, sp_cue, trayVars, voiceVars,
                   cmdVars>>

\* startup_worker(), line 315: transcription.load_model()
StartupLoadModel ==
    /\ startup_pc = "load_model"
    /\ model' = model_size
    /\ startup_pc' = "start_stream"
    /\ UNCHANGED <<keyboardVars, pc, audio_data, sessionVars, recordVars,
                   processing_queue, monitorVars, workerVars, streamVars,
                   captureVars, histVars, liveVars, pipeVars, model_size, rpc,
                   r_name, cur_signal,
                   run_fired, sp_cue, trayVars, voiceVars,
                   cmdVars>>

\* startup_worker(), line 322: audio.start_stream()
StartupStartStream ==
    /\ startup_pc = "start_stream"
    /\ stream_ref' = StartStream(stream_ref, open_streams)[1]
    /\ open_streams' = StartStream(stream_ref, open_streams)[2]
    /\ startup_pc' = "listener"
    /\ UNCHANGED <<keyboardVars, pc, audio_data, sessionVars, recordVars,
                   processing_queue, monitorVars, workerVars, captureVars,
                   histVars,
                   liveVars, pipeVars, modelVars, cur_signal,
                   run_fired, sp_cue, trayVars, voiceVars,
                   cmdVars>>

\* startup_worker(), lines 325-330: set_callbacks and start_listener
StartupListener ==
    /\ startup_pc = "listener"
    /\ startup_pc' = "done"
    /\ UNCHANGED <<keyboardVars, pc, audio_data, sessionVars, recordVars,
                   processing_queue, monitorVars, workerVars, streamVars,
                   captureVars, histVars,
                   liveVars, pipeVars, modelVars, cur_signal,
                   run_fired, sp_cue, trayVars, voiceVars,
                   cmdVars>>

\* ---- specifications ----

Startup == StartupLoadModel \/ StartupStartStream \/ StartupListener

Timers ==
    \/ \E t \in TimerThreads : TimerExpire(t)
    \/ \E t \in TimerThreads : TimerCheck(t)
    \/ \E t \in TimerThreads : TimerCall(t)
    \/ \E t \in TimerThreads : TimerReset(t)

\* on_double_ctrl / on_triple_ctrl run by the threads T while never asleep
Actions(T) ==
    \/ \E t \in T : UpdateActivity(t)
    \/ \E t \in T : ToggleTest(t)
    \/ \E t \in T : StartRecording(t)
    \/ \E t \in T : StopRecording(t)
    \/ \E t \in T : StopAndProcess(t)

WakeUps(T) ==
    \/ \E t \in T : WakeUp(t)
    \/ \E t \in T : WakeOpenStream(t)
    \/ \E t \in T : WakeStartStream(t)

LivePreview ==
    \/ \E i \in LiveWorkers : LivePreviewTest(i)
    \/ LivePreviewPeek
    \/ \E i \in LiveWorkers : LivePreviewCall(i)
    \/ \E i \in LiveWorkers : LivePreviewReturn(i)
    \/ LivePreviewExit

Worker ==
    \/ WorkerGet
    \/ WorkerTranscribe
    \/ WorkerInference
    \/ WorkerIdle

Reload ==
    \/ \E name \in ModelSizes : TraySelectModel(name)
    \/ ReloadDelete
    \/ ReloadLoad
    \/ ReloadFallback

Monitor ==
    \/ MonitorPoll
    \/ MonitorCheck
    \/ MonitorSleep
    \/ MonitorStopStream
    \/ MonitorUnload

\* The gesture detector: the listener thread and the timer threads.
NextGesture ==
    \/ Startup
    \/ \E key \in Keys : OnKeyRelease(key)
    \/ Tick
    \/ Timers
    \/ Actions(TimerThreads \cup {ListenerThread})
    \/ OpenHistory(ListenerThread)
    \/ LivePreviewExit

SpecGesture == Init /\ [][NextGesture]_vars

\* The lifecycle: external control signals and the sleep monitor.
NextLifecycle ==
    \/ Startup
    \/ \E signum \in Signals : SignalHandler(signum)
    \/ Actions({MainThread})
    \/ WakeUps({MainThread})
    \/ Elapse
    \/ Monitor
    \/ LivePreviewExit

SpecLifecycle == Init /\ [][NextLifecycle]_vars

TraySource ==
    \/ TraySelectSource
    \/ TrayStopStream
    \/ TrayOpenStream
    \/ TrayAssignStream

\* The capture stream: startup, wake-ups by control signals, the sleep
\* monitor and the microphone selection of the tray menu.
NextStream ==
    \/ NextLifecycle
    \/ TraySource

SpecStream == Init /\ [][NextStream]_vars

\* External control signals next to the gesture detector.
NextControl ==
    \/ Startup
    \/ \E key \in Keys : OnKeyRelease(key)
    \/ Tick
    \/ Timers
    \/ \E signum \in Signals : SignalHandler(signum)
    \/ Actions(Threads)
    \/ OpenHistory(ListenerThread)
    \/ LivePreviewExit

SpecControl == Init /\ [][NextControl]_vars

\* The recording pipeline: capture callback, live preview and worker.
NextAudio ==
    \/ Startup
    \/ \E signum \in Signals : SignalHandler(signum)
    \/ Actions({MainThread})
    \/ AudioCallback
    \/ LivePreview
    \/ Worker

SpecAudio == Init /\ [][NextAudio]_vars

\* The worker alone, scheduled fairly: the startup thread and the worker are
\* threads of their own, and every transcription call returns.
NextWorker ==
    \/ Startup
    \/ \E signum \in Signals : SignalHandler(signum)
    \/ Actions({MainThread})
    \/ AudioCallback
    \/ LivePreviewExit
    \/ Worker

SpecWorkerFair ==
    Init /\ [][NextWorker]_vars /\ WF_vars(Startup) /\ WF_vars(Worker)

\* The key-listener thread next to the sleep monitor: the Triple action,
\* which _on_key_release calls itself.  The Double actions of the timer
\* threads are not followed here (a timer thread that has called
\* on_double_ctrl stays inside it).  Seconds pass only while the detector is
\* at rest: no timer pending, the last release at least 500 ms ago.
ElapseAtRest ==
    /\ since_last_ctrl = DEBOUNCE_WINDOW
    /\ \A t \in TimerThreads : pc[t] = "free"
    /\ Elapse

NextWake ==
    \/ Startup
    \/ \E key \in Keys : OnKeyRelease(key)
    \/ Tick
    \/ Timers
    \/ UpdateActivity(ListenerThread)
    \/ WakeUps({ListenerThread})
    \/ OpenHistory(ListenerThread)
    \/ ElapseAtRest
    \/ Monitor

SpecWake == Init /\ [][NextWake]_vars

\* A running instance and a second process started with a command option.
NextCommand ==
    \/ instance = "running" /\ Startup
    \/ instance = "running" /\ Actions({MainThread})
    \/ instance = "running" /\ LivePreviewExit
    \/ SignalDelivered
    \/ OnQuit
    \/ LockFileRemoved
    \/ \E arg \in CmdArgs : CmdRun(arg)
    \/ AppRun
    \/ CmdGetRunningPid
    \/ CmdKill
    \/ CmdCheckSingleInstance

SpecCommand == Init /\ [][NextCommand]_vars

\* Double actions of a timer thread next to those of the signal handler,
\* with the capture callback.  A Ctrl release is followed only while no
\* timer thread is past its wait, and the Triple action is not followed.
ReleaseWhileWaiting ==
    /\ \A t \in TimerThreads : pc[t] \in {"free", "armed"}
    /\ \E key \in CtrlKeys : OnKeyRelease(key)

NextSession ==
    \/ Startup
    \/ ReleaseWhileWaiting
    \/ Tick
    \/ Timers
    \/ SignalHandler("SIGUSR1")
    \/ Actions(TimerThreads \cup {MainThread})
    \/ AudioCallback
    \/ LivePreviewExit

SpecSession == Init /\ [][NextSession]_vars

\* process_voice_commands applied to every text of up to MaxWords words.
NextVoice == VoiceCommandsCall

SpecVoice == Init /\ [][NextVoice]_vars

\* The pipeline while the tray reloads the model.
NextPipeline ==
    \/ NextAudio
    \/ Reload

SpecPipeline == Init /\ [][NextPipeline]_vars

\* ---- gesture detector properties (SpecGesture) ----

\* positions inside on_double_ctrl
InDouble == {"ua", "ua_wake", "ua_stream", "ua_assign", "toggle", "start",
             "stop", "sp_check"}

\* a timer armed by the second release of a pair that followed a gap of at
\* least 500 ms, and no release has arrived since
CleanPair(t) == timer_hist[t].fresh /\ ~timer_hist[t].disturbed

\* C1: every pair of Ctrl releases less than 500 ms apart that follows a gap
\* of at least 500 ms and is followed by no release for 300 ms invokes the
\* Double action when its timer expires, also when the pair was released
\* while the action of an earlier Double is still executing.
C1_DoubleFiresForEveryPair ==
    [][\A t \in TimerThreads :
          (pc[t] = "expired" /\ CleanPair(t)) => pc'[t] # "reset"]_vars

\* C2: a third Ctrl release that arrives while the 300 ms window of such a
\* pair is still open (and recording is off) fires the Triple action at that
\* release and cancels the pending Double timer of the pair.
C2_TripleAtThirdRelease ==
    [][\A t \in TimerThreads :
          (/\ pc[t] = "armed"
           /\ CleanPair(t)
           /\ ~is_recording
           /\ \E key \in CtrlKeys : OnKeyRelease(key))
          => (pc'[ListenerThread] = "ua" /\ pc'[t] = "free")]_vars

\* C3: the timer of a press sequence whose third release invoked the Triple
\* action never runs the Double action: firing and cancelling exclude each
\* other under every interleaving of the listener and the timer thread.
C3_FireAndCancelExclusive ==
    \A t \in TimerThreads : timer_hist[t].tripled => pc[t] \notin InDouble

\* C4: the Triple action is invoked only by a Ctrl release handled while
\* recording is false, and a release that completes a triple press invokes
\* it exactly when recording is false at that release.
C4_NoTripleWhileRecording ==
    [][/\ (pc[ListenerThread] = "idle" /\ pc'[ListenerThread] = "ua")
            => ~is_recording
       /\ (/\ \E key \in CtrlKeys : OnKeyRelease(key)
           /\ last_release' \in {"triple", "suppressed"})
            => (pc'[ListenerThread] = "ua" <=> ~is_recording)]_vars

\* a triple press was completed during a recording and Triple was suppressed
C4_Witness ==
    /\ last_release = "suppressed"
    /\ is_recording
    /\ pc[ListenerThread] = "idle"

\* a clean pair released while no other timer thread was alive
LonePair(t) == CleanPair(t) /\ timer_hist[t].alone

\* C24: the step that handles a Ctrl release invokes no Double action; the
\* timer of a lone double press invokes it, and does so when exactly
\* TIMER_INTERVAL ticks (300 ms) have passed since the second release.
C24_DoubleAfter300ms ==
    [][/\ (\E key \in CtrlKeys : OnKeyRelease(key))
            => \A t \in TimerThreads :
                  pc'[t] \in {"expired", "call", "ua"} => pc'[t] = pc[t]
       /\ \A t \in TimerThreads :
            (pc[t] = "call" /\ pc'[t] = "ua" /\ CleanPair(t))
            => since_last_ctrl = 3
       /\ \A t \in TimerThreads :
            (pc[t] = "expired" /\ pc'[t] # "expired" /\ LonePair(t))
            => pc'[t] = "call"]_vars

\* the Double action of a lone double press runs, 300 ms after the second
\* release
C24_Witness ==
    \E t \in TimerThreads :
        /\ pc[t] = "ua"
        /\ LonePair(t)
        /\ since_last_ctrl = 3

\* C25: at most one debounce timer is armed (started, neither fired nor
\* cancelled) in every reachable state.
C25_OnePendingTimer ==
    Cardinality({t \in TimerThreads : pc[t] = "armed"}) <= 1

\* C26: _ctrl_press_count and _ctrl_action_timer change only in steps of
\* _on_key_release; no step of a timer thread writes them.
C26_GestureStateSingleWriter ==
    [][(\/ ctrl_press_count' # ctrl_press_count
        \/ ctrl_action_timer' # ctrl_action_timer)
       => \E key \in CtrlKeys : OnKeyRelease(key)]_vars

\* C27: a run of Ctrl releases with every gap below 500 ms invokes at most
\* one gesture action (Double or Triple) in total.
C27_OneActionPerRun == run_fired <= 1

\* ---- recording properties (SpecAudio) ----

\* the step in which thread t returns from audio.stop_recording()
StopReturns(t) == pc[t] = "stop" /\ pc'[t] = "sp_check"

\* ids of the blocks appended since the matching start_recording, in order
SessionBlocks ==
    [i \in 1..(next_chunk - 1 - session_base) |-> session_base + i]

\* C6: stop_recording sets recording to false; it returns none when no block
\* was captured since the matching start_recording, and otherwise the
\* concatenation of all blocks captured since then, in capture order.
C6_StopReturnsConcatenation ==
    [][\A t \in Threads :
          StopReturns(t) =>
              /\ ~is_recording'
              /\ IF SessionBlocks = <<>>
                 THEN audio_data'[t].isNone
                 ELSE /\ ~audio_data'[t].isNone
                      /\ audio_data'[t].src = SessionBlocks]_vars

\* a stop returned the concatenation of at least two blocks
C6_Witness ==
    /\ pc[MainThread] = "sp_check"
    /\ ~is_recording
    /\ Len(audio_data[MainThread].src) >= 2

\* C7: within a recording session a get_current_buffer snapshot holds only
\* blocks already captured, and the buffer that stop_recording returns
\* afterwards starts with every snapshot taken in that session.
C7_SnapshotIsPrefix ==
    [][/\ (is_recording' /\ ~snap'.isNone)
            => IsPrefix(snap'.src, Concatenate(audio_buffer').src)
       /\ \A t \in Threads :
            (StopReturns(t) /\ ~snap.isNone)
            => /\ ~audio_data'[t].isNone
               /\ IsPrefix(snap.src, audio_data'[t].src)
               /\ snap.len <= audio_data'[t].len]_vars

\* a stop returned more than the snapshot taken earlier in the session
C7_Witness ==
    /\ pc[MainThread] = "sp_check"
    /\ ~snap.isNone
    /\ Len(snap.src) < Len(audio_data[MainThread].src)

\* C8: nothing shorter than 48000 samples is on the processing queue or
\* handed to the transcription of the worker, and stop_and_process enqueues
\* the stopped recording exactly when it has at least 48000 samples.
C8_ShortRecordingsDropped ==
    [][/\ \A i \in 1..Len(processing_queue') :
            /\ ~processing_queue'[i].isNone
            /\ processing_queue'[i].len >= MIN_SAMPLES
       /\ wpc' = "transcribe" => (~job'.isNone /\ job'.len >= MIN_SAMPLES)
       /\ \A t \in Threads :
            (pc[t] = "sp_check" /\ pc'[t] # "sp_check")
            => processing_queue' =
                  IF ~audio_data[t].isNone /\ audio_data[t].len >= MIN_SAMPLES
                  THEN Append(processing_queue, audio_data[t])
                  ELSE processing_queue]_vars

\* a recording of exactly 48000 samples reached the transcription
C8_Witness == wpc = "transcribe" /\ job.len = MIN_SAMPLES

\* ---- pipeline properties ----

\* the job that holds block k
HasBlock(a, k) == \E i \in 1..Len(a.src) : a.src[i] = k

\* C11: the worker takes jobs off the queue in the order stop_and_process
\* put them there, one at a time; a job leaves the queue only into the
\* worker's hands, and every job on the queue is eventually in its hands.
C11_QueueIsFifo ==
    /\ [][/\ processing_queue' # processing_queue
               => \/ \E t \in Threads :
                       /\ pc[t] = "sp_check"
                       /\ processing_queue' =
                              Append(processing_queue, audio_data[t])
                  \/ /\ wpc = "get"
                     /\ job.isNone
                     /\ processing_queue = <<job'>> \o processing_queue'
          /\ (job' # job /\ ~job'.isNone)
               => (job.isNone /\ processing_queue = <<job'>> \o processing_queue')
          /\ \A i, j \in 1..Len(processing_queue') :
               i < j => processing_queue'[i].src[1] < processing_queue'[j].src[1]]_vars
    /\ \A k \in 1..MaxChunks :
          (\E i \in 1..Len(processing_queue) : HasBlock(processing_queue[i], k))
          ~> HasBlock(job, k)

\* the worker holds a job while a younger one waits on the queue
C11_Witness ==
    /\ wpc = "inference"
    /\ processing_queue # <<>>
    /\ job.src[1] < processing_queue[1].src[1]

\* the step in which the worker has handled the outcome of transcribe
WorkerHandled == wpc \in {"transcribe", "inference"} /\ wpc' = "idle"

\* e comes before f in the sequence out
Before(out, e, f) ==
    \E i, j \in 1..Len(out) : i < j /\ out[i] = e /\ out[j] = f

\* C12: when the transcription of a job raises, the worker plays the error
\* cue and sends the error notification, then sets the tray to idle and is
\* back at processing_queue.get(); no outcome of a job ends the loop.
C12_WorkerSurvivesFailure ==
    [][/\ (WorkerHandled /\ w_exc' # "none")
            => /\ \E i \in 1..Len(w_out') : w_out'[i] = Ev("sound_error")
               /\ \E i \in 1..Len(w_out') : w_out'[i] = Ev("notify_error")
       /\ (wpc \in {"transcribe", "inference"} /\ wpc' # wpc)
            => wpc' \in {"inference", "idle"}
       /\ (wpc = "idle" /\ wpc' # wpc) => wpc' = "get"]_vars

\* the transcription of a job raised while the next job waits on the queue
C12_Witness ==
    /\ wpc = "idle"
    /\ w_exc = "transcribe"
    /\ processing_queue # <<>>

\* C13: for a job whose transcription is non-empty and whose processed text
\* is non-empty, the worker pastes the processed text, with Enter exactly
\* when a trailing validation keyword was found, and then appends the
\* original text to the history.
C13_PasteThenHistory ==
    [][(/\ WorkerHandled
        /\ w_text' # NoText
        /\ ProcessVoiceCommands(w_text').text # NoText)
       => /\ \E r \in {ProcessVoiceCommands(w_text'),
                       [text |-> w_text', validate |-> FALSE]} :
                Before(w_out', Paste(r.text, r.validate),
                       [Ev("history") EXCEPT !.text = w_text'])
          /\ transcription_history' =
                Append(transcription_history, w_text')]_vars

\* C14: a live-preview transcribe(fast=True) call is never in progress
\* while the worker's transcribe call is in progress.
C14_OneTranscribeAtATime ==
    ~(wpc = "inference" /\ \E i \in LiveWorkers : live_pc[i] = "fast")

\* C15: a transcribe call entered while reload_model runs finds the model
\* handle bound, to the old model or to the new one.
C15_ReloadSwapIsAtomic ==
    [][/\ (wpc = "transcribe" /\ wpc' # wpc) => model # Unbound
       /\ \A i \in LiveWorkers :
            (live_pc[i] = "call" /\ live_pc'[i] # "call") => model # Unbound]_vars

\* C16: once _is_recording is false a live-preview loop peeks no buffer,
\* enters no transcribe(fast=True) call and sends no live notification.
C16_PreviewStopsWithRecording ==
    [][\A i \in LiveWorkers :
          (live_pc[i] \in {"peek", "call", "fast"} /\ live_pc'[i] # live_pc[i])
          => main_is_recording]_vars

\* C17: the history changes only when the worker handles a transcription,
\* and then by the original text being appended; no step of a live-preview
\* loop changes it.
C17_HistoryOnlyFromWorker ==
    [][transcription_history' # transcription_history
       => /\ WorkerHandled
          /\ w_text' \in Texts
          /\ transcription_history' =
                Append(transcription_history, w_text')]_vars

\* a live-preview transcription is in progress and the worker has handled a
\* transcribed text
C17_Witness ==
    /\ \E i \in LiveWorkers : live_pc[i] = "fast"
    /\ wpc = "idle"
    /\ w_text \in Texts
    /\ transcription_history = <<>>

\* C28: stop_and_process of a recording with less than 48000 samples, or of
\* one for which stop_recording returned None, plays no sound and puts
\* nothing on the queue.
C28_ShortRecordingIsSilent ==
    [][\A t \in Threads :
          (/\ pc[t] = "sp_check"
           /\ pc'[t] # "sp_check"
           /\ (audio_data[t].isNone \/ audio_data[t].len < MIN_SAMPLES))
          => (sp_cue' = "none" /\ processing_queue' = processing_queue)]_vars

\* the notifications among what the worker did for a job
Notifications(out) ==
    {i \in 1..Len(out) :
        out[i].ev \in {"notify_ok", "notify_warning", "notify_error"}}

\* C29: when transcribe returns the empty text the worker sends the
\* "No text detected" notification and neither the error notification nor
\* the error sound.
C29_EmptyTextIsNoError ==
    [][(WorkerHandled /\ w_text' = NoText /\ w_exc' = "none")
       => /\ \E i \in 1..Len(w_out') : w_out'[i] = Ev("notify_warning")
          /\ \A i \in 1..Len(w_out') :
                w_out'[i] \notin {Ev("sound_error"), Ev("notify_error")}]_vars

C18_ForceStartStopKeepMeaning ==
    /\ cur_signal = "SIGUSR2" => pc[MainThread] # "stop"
    /\ cur_signal = "SIGRTMIN" => pc[MainThread] # "start"

\* C22: a process started with --toggle, --start or --stop never goes on to
\* start the application itself.
C22_CommandNeverStartsApp == ~(cmd_pc = "app" /\ cmd_arg \in CmdArgs)

\* C40: while a process holds the single-instance lock, get_running_pid
\* returns the PID of that process.
C40_LockFileHoldsPid ==
    /\ instance = "running" => GetRunningPid(lock_file) = "instance"
    /\ cmd_pc = "app" => GetRunningPid(lock_file) = "command"

\* ---- lifecycle properties (SpecLifecycle) ----

\* C5: in every reachable state recording implies not sleeping, under all
\* interleavings of Double actions and the sleep monitor.
C5_RecordingImpliesAwake == is_recording => ~is_sleeping

\* C9: whenever the system is in the Active tier with no recording and the
\* inactivity exceeds AUTO_SLEEP_TIMEOUT, the sleep monitor is still polling,
\* so that it goes on to set sleeping and to stop the capture stream.
C9_MonitorSleepsAfterTimeout ==
    (/\ ~is_sleeping
     /\ ~is_recording
     /\ open_streams > 0
     /\ is_model_loaded
     /\ inactive_duration > AUTO_SLEEP_TIMEOUT)
    => mpc # "dead"

\* C10: a Double action that found the system sleeping toggles recording
\* only after it has cleared sleeping and its audio.start_stream() has
\* completed.
C10_WakeBeforeToggle ==
    [][\A t \in Threads :
          (/\ pc[t] \in {"start", "stop"}
           /\ pc'[t] # pc[t]
           /\ is_recording' # is_recording
           /\ woke[t].saw)
          => woke[t].started]_vars

\* a Double action that found the system sleeping has started a recording
C10_Witness ==
    /\ woke[MainThread].saw
    /\ woke[MainThread].started
    /\ pc[MainThread] = "idle"
    /\ is_recording

\* C19: the sleep monitor never leaves its poll loop.
C19_MonitorNeverEnds == mpc # "dead"

\* the step in which thread t returns from on_double_ctrl or on_triple_ctrl
ActionReturns(t) ==
    /\ pc[t] \in {"start", "sp_check", "hist"}
    /\ pc'[t] \in {"idle", "reset"}

\* C20: when on_double_ctrl or on_triple_ctrl returns, once the listener has
\* been started, sleeping is false, the capture stream is open and the
\* model is loaded.
C20_ActiveAfterGesture ==
    [][\A t \in Threads :
          (ActionReturns(t) /\ startup_pc = "done")
          => (~is_sleeping' /\ open_streams' > 0 /\ is_model_loaded')]_vars

\* C21: an iteration of the sleep monitor that finds the model loaded, no
\* recording and an inactivity above MODEL_UNLOAD_TIMEOUT ends with the
\* model unloaded, _is_model_loaded false and the monitor back at its wait.
C21_MonitorUnloadsModel ==
    [][(/\ mpc = "unload"
        /\ mpc' # "unload"
        /\ is_model_loaded
        /\ ~is_recording
        /\ m_inactive > MODEL_UNLOAD_TIMEOUT)
       => (~is_model_loaded' /\ mpc' = "wait")]_vars

\* C23: the key-listener thread never executes the wake-up branch of
\* update_activity (clearing sleeping, reopening the capture stream).
C23_ListenerNeverWakes ==
    pc[ListenerThread] \notin {"ua_wake", "ua_stream", "ua_assign"}

\* ---- capture stream properties (SpecStream) ----

\* C31: no step opens a capture stream and leaves sleeping true, so that
\* the stream is closed whenever sleeping is true.
C31_SleepingKeepsStreamClosed ==
    [][open_streams' > open_streams => ~is_sleeping']_vars

\* C32: in every reachable state recording implies that a capture stream
\* is open.
C32_RecordingImpliesStreamOpen == is_recording => open_streams > 0

\* C38: at most one capture stream is open in every reachable state.
C38_OneCaptureStream == open_streams <= 1

\* ---- voice command properties (SpecVoice) ----

\* position of the last word of a text, 0 when it has none
LastWordAt(text) ==
    IF Split(text) = <<>> THEN 0
    ELSE CHOOSE k \in 1..Len(text) :
            /\ text[k] # Newline
            /\ \A j \in (k + 1)..Len(text) : text[j] = Newline

\* position of the first word of a text, 1 when it has none
FirstWordAt(text) ==
    IF Split(text) = <<>> THEN 1
    ELSE CHOOSE k \in 1..Len(text) :
            /\ text[k] # Newline
            /\ \A j \in 1..(k - 1) : text[j] = Newline

\* a text without the white space at its ends
Strip(text) == SubSeq(text, FirstWordAt(text), LastWordAt(text))

\* a text without its last word
WithoutLastWord(text) ==
    SubSeq(text, 1, LastWordAt(text) - 1)
        \o SubSeq(text, LastWordAt(text) + 1, Len(text))

\* C33: for a text that is no hallucination, process_voice_commands returns
\* the text with every newline command replaced by a newline character;
\* when the last word, lower-cased and without trailing punctuation, is a
\* validation keyword, only that word is removed and should_validate is
\* true, otherwise should_validate is false.  White space at the ends of
\* the result is not compared.
C33_VoiceCommandsPreserveText ==
    (vc_result.returned /\ vc_text \notin HALLUCINATIONS)
    => LET replaced == ReplaceNewlineCommands(vc_text)
           k == LastWordAt(replaced)
           keyword == k > 0 /\ LowerRstrip(replaced[k]) \in VALIDATE_KEYWORDS
       IN /\ vc_result.validate = keyword
          /\ Strip(vc_result.text) =
                IF keyword THEN Strip(WithoutLastWord(replaced))
                ELSE Strip(replaced)

\* ---- session buffer (SpecAudio) ----

\* C34: start_recording leaves the buffer empty; a block is appended only
\* to the buffer of the session during which the callback received it; and
\* the audio returned by stop_recording holds each block appended since
\* the start once, in order.
C34_BufferHoldsSessionOnly ==
    [][/\ \A t \in Threads :
            (pc[t] = "start" /\ pc'[t] # "start") => audio_buffer' = <<>>
       /\ (cb_pc = "append" /\ cb_pc' = "idle") => cb_base = session_base
       /\ \A t \in Threads :
            (StopReturns(t) /\ ~audio_data'[t].isNone)
            => audio_data'[t].src = SessionBlocks]_vars

\* ---- model reload (SpecPipeline) ----

\* C35: when reload_model returns, the model handle is bound, to a model
\* whose size is config.model_size or to None; when it returns True
\* (the new model was loaded) that size is the requested one.
C35_ReloadLeavesModelDefined ==
    [][(rpc # "idle" /\ rpc' = "idle")
       => /\ model' # Unbound
          /\ model' \in ModelSizes => model_size' = model'
          /\ rpc = "load" => (model' = r_name /\ model_size' = r_name)]_vars

\* ---- live preview loops (SpecAudio) ----

\* C36: a live-preview loop that was running when a later recording was
\* started never finds its loop condition true again: it takes no further
\* turn of the loop during the later recording.
C36_OneLivePreviewLoop ==
    [][\A i \in LiveWorkers :
          (live_pc[i] = "test" /\ live_pc'[i] = "peek") => ~live_old[i]]_vars

\* ---- jobs of a session (SpecSession) ----

\* C37: no two jobs on the processing queue hold the same recorded audio,
\* and a call of on_double_ctrl that has started a recording returns
\* without stopping one.
C37_OneJobPerSession ==
    [][/\ \A i, j \in 1..Len(processing_queue') :
            i # j => processing_queue'[i].src # processing_queue'[j].src
       /\ \A t \in Threads :
            (pc[t] = "start" /\ pc'[t] # "start") => pc'[t] = Return(t)]_vars

\* ---- configuration (SpecAudio) ----

\* flags read by live_preview_worker (main.py:176), audio_processing_loop
\* (main.py:233), sleep_monitor_worker (main.py:297) and the tray toggles
FlagsRead == {"live_preview_enabled", "voice_commands_enabled",
              "unload_model_after_inactivity"}

\* C39: every flag that is read is an attribute of the Config object, and
\* the worker never catches an AttributeError for a job.
C39_ConfigFlagsDefined ==
    /\ \A flag \in FlagsRead : flag \in ConfigFields
    /\ w_exc # "AttributeError"

====
